---- MODULE Spec2Model ----
(***************************************************************************)
(* The contract grammar of the lunarity parser                             *)
(* (core/src/parser/contract.rs): contract_definition, contract_part,      *)
(* visibility, event_definition and indexed_parameter, run one statement   *)
(* at a time over a token stream that the lexer produces on demand.        *)
(***************************************************************************)
EXTENDS Integers, Sequences, FiniteSets, TLC

\* ------------------------------------------------------------------ bounds
\* The longest token stream the lexer produces before EndOfProgram.
MaxTokens == 15
\* The stream ends at most this many tokens after the token at which the
\* first diagnostic is recorded.
MaxTail == 0

\* ------------------------------------------------------------------ tokens
Visibilities == {"KeywordPublic", "KeywordInternal", "KeywordPrivate", "KeywordConstant"}

Token ==
    { "DeclarationContract", "DeclarationEvent", "Identifier", "KeywordIs",
      "KeywordAnonymous", "KeywordIndexed", "Comma", "Semicolon",
      "BraceOpen", "BraceClose", "ParenOpen", "ParenClose",
      "TypeBool", "EndOfProgram" } \cup Visibilities

None == [none |-> TRUE]

VARIABLES
    src,      \* the tokens lexed so far; src[pos] is the current token
    pos,      \* the token cursor
    errors,   \* the error sink: the cursor position of every diagnostic
    pc,       \* the statement the parser is at
    cd,       \* locals of contract_definition
    cp,       \* locals of contract_part
    ev,       \* locals of event_definition
    ip,       \* locals of indexed_parameter
    ret,      \* the value the last call returned
    result    \* what contract_definition returned

vars == <<src, pos, errors, pc, cd, cp, ev, ip, ret, result>>

\* ------------------------------------------------------------------- lexer
\* Byte offsets: token i covers [TokenStart(i), TokenEnd(i)) and a blank
\* separates it from the next token.
TokenWidth == 2
TokenGap == 1
TokenStart(i) == (i - 1) * (TokenWidth + TokenGap)
TokenEnd(i) == TokenStart(i) + TokenWidth

token == src[pos]

\* The tokens the lexer may produce next.
Upcoming ==
    IF \/ Len(src) >= MaxTokens
       \/ errors # <<>> /\ Len(src) >= errors[1] + MaxTail
    THEN {"EndOfProgram"}
    ELSE Token

\* lexer.consume(): advance to the next token, k.
consume(k) ==
    IF token = "EndOfProgram"
    THEN UNCHANGED <<src, pos>>
    ELSE /\ pos' = pos + 1
         /\ src' = Append(src, k)

\* Parser::error(): record a diagnostic at the cursor.
error == errors' = Append(errors, pos)

\* Parser::allow(token): consume the token when it is the current one.
allow(t, k) ==
    IF token = t THEN consume(k) ELSE UNCHANGED <<src, pos>>

\* Parser::expect(token): consume the token, or record a diagnostic.
expect(t, k) ==
    IF token = t
    THEN consume(k) /\ UNCHANGED errors
    ELSE UNCHANGED <<src, pos>> /\ error

\* Parser::node_at(start, end, value)
node_at(start, end, value) == [start |-> start, end |-> end, value |-> value]

\* The node expect_str_node returns: the slice of the current token.
str_node == node_at(TokenStart(pos), TokenEnd(pos), [slice |-> pos])

\* Parser::type_name(): an elementary type name, one token, or nothing.
IsTypeName(t) == t = "TypeBool"
type_name_node == node_at(TokenStart(pos), TokenEnd(pos), [type_name |-> pos])

\* -------------------------------------------------------------------- Init
NoFrame == [none |-> TRUE]

Init ==
    /\ src = <<"DeclarationContract">>
    /\ pos = 1
    /\ errors = <<>>
    /\ pc = "cd_start"
    /\ cd = NoFrame
    /\ cp = NoFrame
    /\ ev = NoFrame
    /\ ip = NoFrame
    /\ ret = None
    /\ result = None

\* ----------------------------------------------------- contract_definition
\* let start = self.lexer.start_then_consume();
cd_start ==
    /\ pc = "cd_start"
    /\ \E k \in Upcoming : consume(k)
    /\ cd' = [start |-> TokenStart(pos)]
    /\ pc' = "cd_name"
    /\ UNCHANGED <<errors, cp, ev, ip, ret, result>>

\* let name = self.expect_str_node(Token::Identifier);
cd_name ==
    /\ pc = "cd_name"
    /\ \E k \in Upcoming : expect("Identifier", k)
    /\ cd' = [start |-> cd.start, name |-> str_node]
    /\ pc' = "cd_is"
    /\ UNCHANGED <<cp, ev, ip, ret, result>>

\* let inherits = if self.allow(Token::KeywordIs) { .. } else { NodeList::empty() };
cd_is ==
    /\ pc = "cd_is"
    /\ \E k \in Upcoming : allow("KeywordIs", k)
    /\ IF token = "KeywordIs"
       THEN /\ pc' = "cd_inherits_first"
            /\ cd' = cd
       ELSE /\ pc' = "cd_brace_open"
            /\ cd' = [start |-> cd.start, name |-> cd.name, inherits |-> <<>>]
    /\ UNCHANGED <<errors, cp, ev, ip, ret, result>>

\* let builder = ListBuilder::new(self.arena, self.expect_str_node(Token::Identifier));
cd_inherits_first ==
    /\ pc = "cd_inherits_first"
    /\ \E k \in Upcoming : expect("Identifier", k)
    /\ cd' = [start |-> cd.start, name |-> cd.name, inherits |-> <<str_node>>]
    /\ pc' = "cd_inherits_loop"
    /\ UNCHANGED <<cp, ev, ip, ret, result>>

\* while self.allow(Token::Comma) { .. }  builder.as_list()
cd_inherits_loop ==
    /\ pc = "cd_inherits_loop"
    /\ \E k \in Upcoming : allow("Comma", k)
    /\ pc' = IF token = "Comma" THEN "cd_inherits_push" ELSE "cd_brace_open"
    /\ UNCHANGED <<errors, cd, cp, ev, ip, ret, result>>

\* cd_inherits_push appending only what is an identifier.
cd_inherits_push_checked ==
    /\ pc = "cd_inherits_push"
    /\ \E k \in Upcoming : expect("Identifier", k)
    /\ cd' = IF token = "Identifier"
             THEN [cd EXCEPT !.inherits = Append(@, str_node)]
             ELSE cd
    /\ pc' = "cd_inherits_loop"
    /\ UNCHANGED <<cp, ev, ip, ret, result>>

\* cd_inherits_push putting the new identifier in front.
cd_inherits_push_front ==
    /\ pc = "cd_inherits_push"
    /\ \E k \in Upcoming : expect("Identifier", k)
    /\ cd' = [cd EXCEPT !.inherits = <<str_node>> \o @]
    /\ pc' = "cd_inherits_loop"
    /\ UNCHANGED <<cp, ev, ip, ret, result>>

\* builder.push(self.arena, self.expect_str_node(Token::Identifier));
cd_inherits_push ==
    /\ pc = "cd_inherits_push"
    /\ \E k \in Upcoming : expect("Identifier", k)
    /\ cd' = [cd EXCEPT !.inherits = Append(@, str_node)]
    /\ pc' = "cd_inherits_loop"
    /\ UNCHANGED <<cp, ev, ip, ret, result>>

\* cd_brace_open with allow in the place of expect.
cd_brace_open_allowing ==
    /\ pc = "cd_brace_open"
    /\ \E k \in Upcoming : allow("BraceOpen", k)
    /\ cd' = [start |-> cd.start, name |-> cd.name, inherits |-> cd.inherits,
              body |-> <<>>]
    /\ pc' = "cp_dispatch"
    /\ UNCHANGED <<errors, cp, ev, ip, ret, result>>

\* self.expect(Token::BraceOpen);  let builder = GrowableList::new();
cd_brace_open ==
    /\ pc = "cd_brace_open"
    /\ \E k \in Upcoming : expect("BraceOpen", k)
    /\ cd' = [start |-> cd.start, name |-> cd.name, inherits |-> cd.inherits,
              body |-> <<>>]
    /\ pc' = "cp_dispatch"
    /\ UNCHANGED <<cp, ev, ip, ret, result>>

\* while let Some(part) = self.contract_part() { builder.push(self.arena, part); }
cd_body_loop ==
    /\ pc = "cd_body_loop"
    /\ IF ret # None
       THEN /\ cd' = [cd EXCEPT !.body = Append(@, ret)]
            /\ pc' = "cp_dispatch"
       ELSE /\ cd' = cd
            /\ pc' = "cd_end"
    /\ ret' = None
    /\ UNCHANGED <<src, pos, errors, cp, ev, ip, result>>

\* cd_end returning nothing when the `}` is missing.
cd_end_aborting ==
    /\ pc = "cd_end"
    /\ \E k \in Upcoming : expect("BraceClose", k)
    /\ result' = IF token = "BraceClose"
                 THEN node_at(cd.start, TokenEnd(pos),
                              [name |-> cd.name, inherits |-> cd.inherits,
                               body |-> cd.body])
                 ELSE None
    /\ cd' = NoFrame
    /\ pc' = "done"
    /\ UNCHANGED <<cp, ev, ip, ret>>

\* let end = self.expect_end(Token::BraceClose);
\* Some(self.node_at(start, end, ContractDefinition { name, inherits, body }))
cd_end ==
    /\ pc = "cd_end"
    /\ \E k \in Upcoming : expect("BraceClose", k)
    /\ result' = node_at(cd.start, TokenEnd(pos),
                         [name |-> cd.name, inherits |-> cd.inherits,
                          body |-> cd.body])
    /\ cd' = NoFrame
    /\ pc' = "done"
    /\ UNCHANGED <<cp, ev, ip, ret>>

contract_definition ==
    \/ cd_start
    \/ cd_name
    \/ cd_is
    \/ cd_inherits_first
    \/ cd_inherits_loop
    \/ cd_inherits_push
    \/ cd_brace_open
    \/ cd_body_loop
    \/ cd_end

\* ----------------------------------------------------------- contract_part
\* cp_dispatch reporting the failed type-name probe.
cp_dispatch_reporting ==
    /\ pc = "cp_dispatch"
    /\ IF token = "DeclarationEvent"
       THEN /\ pc' = "ev_start"
            /\ UNCHANGED <<src, pos, errors, cp, ret>>
       ELSE IF IsTypeName(token)
       THEN /\ \E k \in Upcoming : consume(k)
            /\ cp' = [type_name |-> type_name_node]
            /\ pc' = "cp_visibility"
            /\ UNCHANGED <<errors, ret>>
       ELSE /\ ret' = None
            /\ pc' = "cd_body_loop"
            /\ error
            /\ UNCHANGED <<src, pos, cp>>
    /\ UNCHANGED <<cd, ev, ip, result>>

\* match self.lexer.token { Token::DeclarationEvent => return self.event_definition(), _ => {} }
\* let type_name = self.type_name()?;
cp_dispatch ==
    /\ pc = "cp_dispatch"
    /\ IF token = "DeclarationEvent"
       THEN /\ pc' = "ev_start"
            /\ UNCHANGED <<src, pos, cp, ret>>
       ELSE IF IsTypeName(token)
       THEN /\ \E k \in Upcoming : consume(k)
            /\ cp' = [type_name |-> type_name_node]
            /\ pc' = "cp_visibility"
            /\ ret' = ret
       ELSE /\ ret' = None
            /\ pc' = "cd_body_loop"
            /\ UNCHANGED <<src, pos, cp>>
    /\ UNCHANGED <<errors, cd, ev, ip, result>>

\* let name = self.expect_str_node(Token::Identifier);
cp_name ==
    /\ pc = "cp_name"
    /\ \E k \in Upcoming : expect("Identifier", k)
    /\ cp' = [type_name |-> cp.type_name, visibility |-> cp.visibility,
              name |-> str_node]
    /\ pc' = "cp_end"
    /\ UNCHANGED <<cd, ev, ip, ret, result>>

\* cp_end with the node ended at the name, the `;` left out of the span.
cp_end_at_name ==
    /\ pc = "cp_end"
    /\ \E k \in Upcoming : expect("Semicolon", k)
    /\ ret' = node_at(cp.type_name.start, cp.name.end,
                      [kind |-> "StateVariableDeclaration",
                       type_name |-> cp.type_name,
                       visibility |-> cp.visibility,
                       name |-> cp.name,
                       init |-> None])
    /\ cp' = NoFrame
    /\ pc' = "cd_body_loop"
    /\ UNCHANGED <<cd, ev, ip, result>>

\* let end = self.expect_end(Token::Semicolon);
\* Some(self.node_at(type_name.start, end, StateVariableDeclaration { .. }))
cp_end ==
    /\ pc = "cp_end"
    /\ \E k \in Upcoming : expect("Semicolon", k)
    /\ ret' = node_at(cp.type_name.start, TokenEnd(pos),
                      [kind |-> "StateVariableDeclaration",
                       type_name |-> cp.type_name,
                       visibility |-> cp.visibility,
                       name |-> cp.name,
                       init |-> None])
    /\ cp' = NoFrame
    /\ pc' = "cd_body_loop"
    /\ UNCHANGED <<cd, ev, ip, result>>

contract_part ==
    \/ cp_dispatch
    \/ cp_name
    \/ cp_end

\* -------------------------------------------------------------- visibility
\* The variant visibility() returns for the current token.
VisibilityOf(t) ==
    CASE t = "KeywordPublic"   -> "Public"
      [] t = "KeywordInternal" -> "Internal"
      [] t = "KeywordPrivate"  -> "Private"
      [] t = "KeywordConstant" -> "Constant"
      [] OTHER                 -> "Unspecified"

\* visibility() without its KeywordConstant arm.
visibility_without_constant ==
    /\ pc = "cp_visibility"
    /\ IF VisibilityOf(token) \notin {"Unspecified", "Constant"}
       THEN /\ \E k \in Upcoming : consume(k)
            /\ cp' = [type_name |-> cp.type_name, visibility |-> VisibilityOf(token)]
       ELSE /\ UNCHANGED <<src, pos>>
            /\ cp' = [type_name |-> cp.type_name, visibility |-> "Unspecified"]
    /\ pc' = "cp_name"
    /\ UNCHANGED <<errors, cd, ev, ip, ret, result>>

\* let visibility = self.visibility();
visibility ==
    /\ pc = "cp_visibility"
    /\ IF VisibilityOf(token) # "Unspecified"
       THEN \E k \in Upcoming : consume(k)
       ELSE UNCHANGED <<src, pos>>
    /\ cp' = [type_name |-> cp.type_name, visibility |-> VisibilityOf(token)]
    /\ pc' = "cp_name"
    /\ UNCHANGED <<errors, cd, ev, ip, ret, result>>

\* -------------------------------------------------------- event_definition
\* let start = self.lexer.start_then_consume();
ev_start ==
    /\ pc = "ev_start"
    /\ \E k \in Upcoming : consume(k)
    /\ ev' = [start |-> TokenStart(pos)]
    /\ pc' = "ev_name"
    /\ UNCHANGED <<errors, cd, cp, ip, ret, result>>

\* let name = self.expect_str_node(Token::Identifier);
ev_name ==
    /\ pc = "ev_name"
    /\ \E k \in Upcoming : expect("Identifier", k)
    /\ ev' = [start |-> ev.start, name |-> str_node]
    /\ pc' = "ev_paren_open"
    /\ UNCHANGED <<cd, cp, ip, ret, result>>

\* self.expect(Token::ParenOpen);  match self.indexed_parameter() { .. }
ev_paren_open ==
    /\ pc = "ev_paren_open"
    /\ \E k \in Upcoming : expect("ParenOpen", k)
    /\ ip' = [site |-> "ev_first_param"]
    /\ pc' = "ip_type"
    /\ UNCHANGED <<cd, cp, ev, ret, result>>

\* Some(param) => ListBuilder::new(self.arena, param),  None => NodeList::empty()
ev_first_param ==
    /\ pc = "ev_first_param"
    /\ IF ret # None
       THEN /\ ev' = [start |-> ev.start, name |-> ev.name, params |-> <<ret>>]
            /\ pc' = "ev_comma"
       ELSE /\ ev' = [start |-> ev.start, name |-> ev.name, params |-> <<>>]
            /\ pc' = "ev_paren_close"
    /\ ret' = None
    /\ UNCHANGED <<src, pos, errors, cd, cp, ip, result>>

\* ev_comma looking at the `,` without consuming it.
ev_comma_peeking ==
    /\ pc = "ev_comma"
    /\ IF token = "Comma"
       THEN /\ ip' = [site |-> "ev_param"]
            /\ pc' = "ip_type"
       ELSE /\ ip' = ip
            /\ pc' = "ev_paren_close"
    /\ UNCHANGED <<src, pos, errors, cd, cp, ev, ret, result>>

\* while self.allow(Token::Comma) { match self.indexed_parameter() { .. } }
ev_comma ==
    /\ pc = "ev_comma"
    /\ \E k \in Upcoming : allow("Comma", k)
    /\ IF token = "Comma"
       THEN /\ ip' = [site |-> "ev_param"]
            /\ pc' = "ip_type"
       ELSE /\ ip' = ip
            /\ pc' = "ev_paren_close"
    /\ UNCHANGED <<errors, cd, cp, ev, ret, result>>

\* ev_param taking a missing parameter for the end of the list.
ev_param_silent ==
    /\ pc = "ev_param"
    /\ IF ret # None
       THEN ev' = [ev EXCEPT !.params = Append(@, ret)]
       ELSE ev' = ev
    /\ ret' = None
    /\ pc' = "ev_comma"
    /\ UNCHANGED <<src, pos, errors, cd, cp, ip, result>>

\* Some(param) => builder.push(self.arena, param),  None => self.error()
ev_param ==
    /\ pc = "ev_param"
    /\ IF ret # None
       THEN /\ ev' = [ev EXCEPT !.params = Append(@, ret)]
            /\ UNCHANGED errors
       ELSE /\ ev' = ev
            /\ error
    /\ ret' = None
    /\ pc' = "ev_comma"
    /\ UNCHANGED <<src, pos, cd, cp, ip, result>>

\* self.expect(Token::ParenClose);
ev_paren_close ==
    /\ pc = "ev_paren_close"
    /\ \E k \in Upcoming : expect("ParenClose", k)
    /\ pc' = "ev_anonymous"
    /\ UNCHANGED <<cd, cp, ev, ip, ret, result>>

\* let anonymous = self.allow(Token::KeywordAnonymous);
ev_anonymous ==
    /\ pc = "ev_anonymous"
    /\ \E k \in Upcoming : allow("KeywordAnonymous", k)
    /\ ev' = [start |-> ev.start, name |-> ev.name, params |-> ev.params,
              anonymous |-> (token = "KeywordAnonymous")]
    /\ pc' = "ev_end"
    /\ UNCHANGED <<errors, cd, cp, ip, ret, result>>

\* let end = self.expect_end(Token::Semicolon);
\* Some(self.node_at(start, end, EventDefinition { anonymous, name, params }))
ev_end ==
    /\ pc = "ev_end"
    /\ \E k \in Upcoming : expect("Semicolon", k)
    /\ ret' = node_at(ev.start, TokenEnd(pos),
                      [kind |-> "EventDefinition",
                       anonymous |-> ev.anonymous,
                       name |-> ev.name,
                       params |-> ev.params])
    /\ ev' = NoFrame
    /\ pc' = "cd_body_loop"
    /\ UNCHANGED <<cd, cp, ip, result>>

event_definition ==
    \/ ev_start
    \/ ev_name
    \/ ev_paren_open
    \/ ev_first_param
    \/ ev_comma
    \/ ev_param
    \/ ev_paren_close
    \/ ev_anonymous
    \/ ev_end

\* ------------------------------------------------------- indexed_parameter
\* let type_name = self.type_name()?;
ip_type ==
    /\ pc = "ip_type"
    /\ IF IsTypeName(token)
       THEN /\ \E k \in Upcoming : consume(k)
            /\ ip' = [site |-> ip.site, type_name |-> type_name_node]
            /\ pc' = "ip_indexed"
            /\ ret' = ret
       ELSE /\ ret' = None
            /\ pc' = ip.site
            /\ ip' = NoFrame
            /\ UNCHANGED <<src, pos>>
    /\ UNCHANGED <<errors, cd, cp, ev, result>>

\* ip_indexed consuming `indexed` without setting the flag.
ip_indexed_dropped ==
    /\ pc = "ip_indexed"
    /\ \E k \in Upcoming : allow("KeywordIndexed", k)
    /\ ip' = [site |-> ip.site, type_name |-> ip.type_name, indexed |-> FALSE]
    /\ pc' = "ip_name"
    /\ UNCHANGED <<errors, cd, cp, ev, ret, result>>

\* let indexed = self.allow(Token::KeywordIndexed);
ip_indexed ==
    /\ pc = "ip_indexed"
    /\ \E k \in Upcoming : allow("KeywordIndexed", k)
    /\ ip' = [site |-> ip.site, type_name |-> ip.type_name,
              indexed |-> (token = "KeywordIndexed")]
    /\ pc' = "ip_name"
    /\ UNCHANGED <<errors, cd, cp, ev, ret, result>>

\* let name = self.expect_str_node(Token::Identifier);
\* Some(self.node_at(type_name.start, name.end, IndexedParameter { .. }))
ip_name ==
    /\ pc = "ip_name"
    /\ \E k \in Upcoming : expect("Identifier", k)
    /\ ret' = node_at(ip.type_name.start, str_node.end,
                      [indexed |-> ip.indexed,
                       type_name |-> ip.type_name,
                       name |-> str_node])
    /\ pc' = ip.site
    /\ ip' = NoFrame
    /\ UNCHANGED <<cd, cp, ev, result>>

indexed_parameter ==
    \/ ip_type
    \/ ip_indexed
    \/ ip_name

\* ------------------------------------------------------------------- Spec
Next ==
    \/ contract_definition
    \/ contract_part
    \/ visibility
    \/ event_definition
    \/ indexed_parameter

Spec == Init /\ [][Next]_vars

\* The parser runs to completion: no statement is postponed forever.
FairSpec == Spec /\ WF_vars(Next)

\* ------------------------------------------------- the grammar, as text
\* contract Id [is Id {, Id}] { part* }
\* part  ::= event Id ( [param {, param}] ) [anonymous] ;  |  type [visibility] Id ;
\* param ::= type [indexed] Id
\* read off the grammar as a finite automaton over token kinds.
Grammar(q, t) ==
    CASE q = "start" /\ t = "DeclarationContract"       -> "contract"
      [] q = "contract" /\ t = "Identifier"             -> "name"
      [] q = "name" /\ t = "KeywordIs"                  -> "is"
      [] q = "is" /\ t = "Identifier"                   -> "base"
      [] q = "base" /\ t = "Comma"                      -> "is"
      [] q \in {"name", "base"} /\ t = "BraceOpen"      -> "body"
      [] q = "body" /\ t = "BraceClose"                 -> "accept"
      [] q = "body" /\ t = "DeclarationEvent"           -> "event"
      [] q = "event" /\ t = "Identifier"                -> "event_name"
      [] q = "event_name" /\ t = "ParenOpen"            -> "params"
      [] q \in {"params", "more"} /\ t = "TypeBool"     -> "param_type"
      [] q = "param_type" /\ t = "KeywordIndexed"       -> "param_indexed"
      [] q \in {"param_type", "param_indexed"} /\ t = "Identifier" -> "param"
      [] q = "param" /\ t = "Comma"                     -> "more"
      [] q \in {"params", "param"} /\ t = "ParenClose"  -> "closed"
      [] q = "closed" /\ t = "KeywordAnonymous"         -> "anonymous"
      [] q \in {"closed", "anonymous"} /\ t = "Semicolon" -> "body"
      [] q = "body" /\ t = "TypeBool"                   -> "var_type"
      [] q = "var_type" /\ t \in Visibilities           -> "var_visibility"
      [] q \in {"var_type", "var_visibility"} /\ t = "Identifier" -> "var_name"
      [] q = "var_name" /\ t = "Semicolon"              -> "body"
      [] OTHER                                          -> "reject"

RECURSIVE Derive(_, _, _)
Derive(q, s, i) == IF i > Len(s) THEN q ELSE Derive(Grammar(q, s[i]), s, i + 1)

\* s is a declaration of the grammar.
IsDeclaration(s) == Derive("start", s, 1) = "accept"

\* The tokens the parser has consumed.
Consumed == SubSeq(src, 1, pos - 1)

\* contract_definition has returned and what it consumed is a declaration.
WellFormed == pc = "done" /\ IsDeclaration(Consumed)

\* The node covers exactly the tokens i..j.
Spans(node, i, j) == node.start = TokenStart(i) /\ node.end = TokenEnd(j)

\* The least index from i on whose token is in kinds (0 when there is none).
NextOf(kinds, i) ==
    LET hits == {j \in i..Len(src) : src[j] \in kinds}
    IN  IF hits = {} THEN 0 ELSE CHOOSE j \in hits : \A h \in hits : j <= h

\* The indices in i..j whose token is in kinds, in ascending order.
RECURSIVE Indices(_, _, _)
Indices(kinds, i, j) ==
    IF i > j THEN <<>>
    ELSE IF src[i] \in kinds THEN <<i>> \o Indices(kinds, i + 1, j)
    ELSE Indices(kinds, i + 1, j)

\* ------------------------------------------------------------------ claims
\* Where the pieces of a declaration sit in the token stream.
BodyOpen == NextOf({"BraceOpen"}, 1)
Terminators == Indices({"Semicolon"}, 1, pos - 1)
PartFirst(n) == IF n = 1 THEN BodyOpen + 1 ELSE Terminators[n - 1] + 1
PartLast(n) == Terminators[n]
IsEvent(part) == part.value.kind = "EventDefinition"
TypesOf(n) == Indices({"TypeBool"}, PartFirst(n), PartLast(n))

\* C1: for a well-formed declaration every node spans from the start of the
\* first token of its construct to the end of the last one: the contract from
\* `contract` to `}`, an event from `event` to its `;`, a state variable from
\* its type name to its `;`, an indexed parameter from its type name to its
\* identifier.
C1_Spans ==
    WellFormed =>
        LET body == result.value.body IN
        /\ Spans(result, 1, pos - 1)
        /\ src[1] = "DeclarationContract" /\ src[pos - 1] = "BraceClose"
        /\ Len(body) = Len(Terminators)
        /\ \A n \in 1..Len(body) :
            /\ Spans(body[n], PartFirst(n), PartLast(n))
            /\ IsEvent(body[n]) <=> src[PartFirst(n)] = "DeclarationEvent"
            /\ ~IsEvent(body[n]) <=> src[PartFirst(n)] = "TypeBool"
            /\ IsEvent(body[n]) =>
                LET params == body[n].value.params IN
                /\ Len(params) = Len(TypesOf(n))
                /\ \A m \in 1..Len(params) :
                       Spans(params[m], TypesOf(n)[m],
                             NextOf({"Identifier"}, TypesOf(n)[m]))

\* A contract with an event that has a parameter, and a second part.
C1_Witness ==
    /\ WellFormed
    /\ \E n \in 1..Len(result.value.body) :
        /\ IsEvent(result.value.body[n])
        /\ Len(result.value.body[n].value.params) >= 1
    /\ \E n \in 1..Len(result.value.body) : ~IsEvent(result.value.body[n])

\* The node expect_str_node makes of the token at index i.
NameAt(i) == node_at(TokenStart(i), TokenEnd(i), [slice |-> i])

\* The identifiers between `is` and `{`, in source order.
Bases == Indices({"Identifier"}, 3, BodyOpen - 1)

\* C6: for a well-formed declaration, inherits is the empty list when no `is`
\* follows the name, and otherwise exactly the k >= 1 identifiers that follow
\* `is`, in source order, none dropped or duplicated.
C6_Inherits ==
    WellFormed =>
        /\ src[3] # "KeywordIs" => result.value.inherits = <<>>
        /\ src[3] = "KeywordIs" => Len(result.value.inherits) >= 1
        /\ Len(result.value.inherits) = Len(Bases)
        /\ \A n \in 1..Len(Bases) : result.value.inherits[n] = NameAt(Bases[n])

\* `contract A is B, C { .. }`
C6_Witness ==
    /\ WellFormed
    /\ Len(result.value.inherits) = 2
    /\ result.value.inherits[1] # result.value.inherits[2]

\* C7: for a well-formed event, params holds the k >= 0 parameters in source
\* order, a parameter is indexed exactly when `indexed` follows its type name,
\* and the event is anonymous exactly when `anonymous` follows the `)`.
C7_Event ==
    WellFormed =>
        \A n \in 1..Len(result.value.body) :
            IsEvent(result.value.body[n]) =>
                LET event == result.value.body[n].value
                    types == TypesOf(n)
                IN
                /\ event.name = NameAt(PartFirst(n) + 1)
                /\ types = <<>> => event.params = <<>>
                /\ Len(event.params) = Len(types)
                /\ \A m \in 1..Len(types) :
                    LET param == event.params[m].value
                        name  == NextOf({"Identifier"}, types[m])
                    IN
                    /\ param.type_name.value.type_name = types[m]
                    /\ param.name = NameAt(name)
                    /\ param.indexed <=> src[types[m] + 1] = "KeywordIndexed"
                    /\ param.indexed <=> name = types[m] + 2
                /\ event.anonymous <=> src[PartLast(n) - 1] = "KeywordAnonymous"

\* `event E(T indexed a, T b);`
C7_Witness ==
    /\ WellFormed
    /\ \E n \in 1..Len(result.value.body) :
        /\ IsEvent(result.value.body[n])
        /\ Len(result.value.body[n].value.params) = 2
        /\ result.value.body[n].value.params[1].value.indexed
        /\ ~result.value.body[n].value.params[2].value.indexed

\* C10: contract_definition records no diagnostic exactly when the tokens it
\* consumed form a declaration of the grammar.
C10_Diagnostics ==
    pc = "done" => (errors = <<>> <=> IsDeclaration(Consumed))

\* A malformed stream that is reported, with a well-formed part in it.
C10_Witness ==
    /\ pc = "done"
    /\ errors # <<>>
    /\ ~IsDeclaration(Consumed)
    /\ Len(result.value.body) >= 1

\* The token index a start offset belongs to.
IndexOf(offset) == offset \div (TokenWidth + TokenGap) + 1

\* A diagnostic was recorded with the cursor at index i.
ReportedAt(i) == \E e \in 1..Len(errors) : errors[e] = i

\* The mandatory token of the statement the parser is at, in
\* contract_definition, event_definition and the state-variable branch.
Mandatory ==
    CASE pc \in {"cd_name", "ev_name", "cp_name"} -> "Identifier"
      [] pc = "cd_brace_open"                     -> "BraceOpen"
      [] pc = "cd_end"                            -> "BraceClose"
      [] pc = "ev_paren_open"                     -> "ParenOpen"
      [] pc = "ev_paren_close"                    -> "ParenClose"
      [] pc \in {"ev_end", "cp_end"}              -> "Semicolon"
      [] OTHER                                    -> "none"

MandatoryMissing == Mandatory # "none" /\ token # Mandatory

InContractDefinition == pc \in {"cd_name", "cd_brace_open", "cd_end"}

\* C2 as stated: a missing mandatory token records a diagnostic and aborts
\* the construct, whose caller receives no node.
AbortsStep ==
    MandatoryMissing =>
        /\ errors' = Append(errors, pos)
        /\ IF InContractDefinition
           THEN pc' = "done" /\ result' = None
           ELSE pc' = "cd_body_loop" /\ ret' = None

ContinuesStep ==
    MandatoryMissing =>
        /\ errors' = Append(errors, pos)
        /\ pos' = pos
        /\ pc = "cd_end" => (pc' = "done" /\ result' # None)
        /\ pc \in {"ev_end", "cp_end"} => (pc' = "cd_body_loop" /\ ret' # None)
        /\ pc \notin {"cd_end", "ev_end", "cp_end"} =>
               pc' \notin {"done", "cd_body_loop"}

ReturnsNodeStep == pc \in {"ev_end", "cp_end"} => ret' # None

C3_DanglingComma ==
    pc \in {"ev_comma", "ev_paren_close", "ev_anonymous", "ev_end"} =>
        \A c \in IndexOf(ev.start)..(pos - 1) :
            (src[c] = "Comma" /\ ~IsTypeName(src[c + 1])) => ReportedAt(c + 1)

\* `event E(T a, )`: the list is over and the comma was reported.
C3_Witness ==
    /\ pc = "ev_paren_close"
    /\ Len(ev.params) = 1
    /\ src[pos - 1] = "Comma"
    /\ token = "ParenClose"
    /\ ReportedAt(pos)

\* The commas of the inheritance list, once the list is finished.
Commas == Indices({"Comma"}, 1, pos - 1)

NotAPart == token # "DeclarationEvent" /\ ~IsTypeName(token)

ProbeStep ==
    pc = "cp_dispatch" =>
        /\ (pc' = "cd_body_loop" /\ ret' = None) <=> NotAPart
        /\ NotAPart => (pos' = pos /\ src' = src /\ errors' = errors)

ItemStep == (pc # "cp_dispatch" /\ pc' = "cd_body_loop") => ret' # None

ReportStep ==
    (pc \in {"cp_name", "cp_end"} /\ MandatoryMissing) =>
        errors' = Append(errors, pos)

C5_Probe ==
    /\ [][ProbeStep]_vars
    /\ [][ItemStep]_vars
    /\ [][ReportStep]_vars

\* The body ended on a token that is neither a part nor `}`.
C5_Witness ==
    /\ pc = "cd_body_loop"
    /\ ret = None
    /\ token \notin {"BraceClose", "EndOfProgram"}
    /\ Len(cd.body) >= 1
    /\ errors = <<>>

\* C8: visibility() consumes one token and returns its variant on `public`,
\* `internal`, `private` and `constant`; on any other token it returns
\* Unspecified and moves nothing; it never records a diagnostic.
Variant ==
    [t \in Visibilities |->
        IF t = "KeywordPublic" THEN "Public"
        ELSE IF t = "KeywordInternal" THEN "Internal"
        ELSE IF t = "KeywordPrivate" THEN "Private"
        ELSE "Constant"]

VisibilityStep ==
    pc = "cp_visibility" =>
        /\ token \in Visibilities =>
            /\ pos' = pos + 1
            /\ SubSeq(src', 1, pos) = src
            /\ cp'.visibility = Variant[token]
        /\ token \notin Visibilities =>
            /\ pos' = pos
            /\ src' = src
            /\ cp'.visibility = "Unspecified"
        /\ errors' = errors

C8_Visibility == [][VisibilityStep]_vars

\* `T constant` has been read.
C8_Witness ==
    /\ pc = "cp_name"
    /\ cp.visibility = "Constant"
    /\ src[pos - 1] = "KeywordConstant"

\* C9: the cursor never moves backwards, every iteration of the body loop, of
\* the inheritance loop and of the parameter loop advances it, and
\* contract_definition returns.
Done == pc = "done"

AdvanceStep ==
    /\ pos' >= pos
    /\ (pc = "cd_inherits_loop" /\ pc' = "cd_inherits_push") => pos' > pos
    /\ (pc = "ev_comma" /\ pc' = "ip_type") => pos' > pos
    /\ (pc = "cp_dispatch" /\ pc' # "cd_body_loop") =>
           (pos' > pos \/ pc' = "ev_start")
    /\ pc = "ev_start" => pos' > pos

C9_Terminates == [][AdvanceStep]_vars /\ <>Done

\* The body loop and the parameter loop have gone round and the parser has
\* returned.
C9_Witness ==
    /\ Done
    /\ pos > MaxTokens - 2
    /\ \E n \in 1..Len(result.value.body) :
        /\ IsEvent(result.value.body[n])
        /\ Len(result.value.body[n].value.params) >= 2

====
